---- MODULE Spec2Model ----
(***************************************************************************)
(* Federated-action propagation of lemmy:                                  *)
(*   - ban_nonlocal_user_from_local_communities (crates/api/src/lib.rs),   *)
(*     the per-community fan-out of a site ban of a non-local person;      *)
(*   - export_user_backup / import_user_backup                             *)
(*     (crates/apub/src/api/user_settings_backup.rs), the export of a      *)
(*     user's settings backup and its import with a detached background    *)
(*     task.                                                               *)
(* BanSpec is the state machine of one call of the ban fan-out, Spec the   *)
(* state machine of export, import and the background import task.         *)
(***************************************************************************)
EXTENDS Integers, Sequences, FiniteSets, Bags, TLC

\* ------------------------------------------------------------------ bounds

\* Largest number of local communities the target has participated in.
MaxCommunities == 3

\* Unix times run over 0..MaxTime.
MaxTime == 2

\* ----------------------------------------------------------------- options

\* Rust's Option<T>.
None == [some |-> FALSE]

Some(x) == [some |-> TRUE, val |-> x]

\* Rust's Result<T, E> as the model keeps it: the value is dropped.
Ok == [ok |-> TRUE]

Err(e) == [ok |-> FALSE, error_type |-> e]

\* No result yet: the call has not returned.
Pending == [ok |-> FALSE, error_type |-> "(not returned)"]

VARIABLES
  \* ---- ban_nonlocal_user_from_local_communities
  target,                 \* target: &Person, the fields id and local
  ban,                    \* ban: bool
  reason,                 \* reason: &Option<String>
  remove_or_restore_data, \* remove_or_restore_data: &Option<bool>
  expires,                \* expires: &Option<i64>
  now,                    \* the clock check_expire_time reads
  participated,           \* number of local communities the target took part in
  ids,                    \* the Vec list_local_community_ids returned
  idx,                    \* position of the for loop in ids (1-based)
  expires_dt,             \* expires_dt of the current iteration
  ban_pc,                 \* the statement the call is at
  ban_result,             \* what the call returned
  community_person_ban,   \* table: community ids the target is banned from
  community_follower_t,   \* table: community ids the target follows
  mod_ban_from_community, \* table: the moderation log, in insertion order
  activities,             \* what ActivityChannel::submit_activity accepted
  calls,                  \* every store / channel call of the fan-out, in order
  \* ---- export_user_backup / import_user_backup
  data,                   \* data: Json<UserBackup>, the backup file the client holds
  exported_from,          \* the person data was exported from unmodified, else 0
  pushes,                 \* how many times the client appended URLs to data
  imports,                \* how many import requests have been made
  import_user,            \* local_user_view.person.id of the import request
  response,               \* what import_user_backup returned
  person,                 \* table person: id -> row
  local_user,             \* table local_user: person id -> settings row
  community,              \* table community: id -> row
  post,                   \* table post: id -> row
  community_follower,     \* table community_follower, a bag of rows
  community_block,        \* table community_block, a bag of rows
  person_block,           \* table person_block, a bag of rows
  post_saved,             \* table post_saved, a bag of rows
  task_state,             \* the task handed to spawn_try_task
  task_error,             \* the error the task ended with, which is only logged
  collection,             \* which try_join_all of the task is awaited (1..4)
  futures,                \* the unfinished futures of that try_join_all, a bag
  resolver_calls,         \* the dereference calls of the current task, a bag
  rows_before,            \* the relationship tables when the request arrived
  rows0                   \* the relationship tables of the initial state

banVars == <<target, ban, reason, remove_or_restore_data, expires, now,
             participated, ids, idx, expires_dt, ban_pc, ban_result,
             community_person_ban, community_follower_t,
             mod_ban_from_community, activities, calls>>

importVars == <<data, exported_from, pushes, imports, import_user, response,
                person, local_user, community, post,
                community_follower, community_block, person_block, post_saved,
                task_state, task_error, collection, futures, resolver_calls,
                rows_before, rows0>>

vars == <<banVars, importVars>>

\* ------------------------------------------------------------ ban fan-out

\* The ids the for loop iterates over.
CommunityIds == 1 .. MaxCommunities

\* The person ids of the moderator (local_user_view.person.id) and the target.
ModeratorId == 1

TargetId == 7

\* check_expire_time of lemmy_api_common::utils: no expiry is accepted as no
\* expiry, an expiry in the past relative to now is rejected with a dedicated
\* error, any other expiry is accepted.
check_expire_time(e, t) ==
  IF ~e.some THEN [ok |-> TRUE, val |-> None]
  ELSE IF e.val < t THEN Err("BanExpirationInPast")
  ELSE [ok |-> TRUE, val |-> Some(e.val)]

\* One entry of calls: operation op on community c returned success (ok) or not.
Call(op, c, ok) == [op |-> op, community_id |-> c, ok |-> ok]

\* The community of the current iteration.
community_id == ids[idx]

\* for community_id in ids: go to the next iteration, or leave the loop and
\* return Ok(()).
NextCommunity ==
  IF idx < Len(ids)
    THEN /\ idx' = idx + 1
         /\ ban_pc' = "check_expire_time"
         /\ ban_result' = ban_result
    ELSE /\ idx' = idx
         /\ ban_pc' = "done"
         /\ ban_result' = Ok

\* The ? operator: the call returns the error at once.
ReturnErr(e) ==
  /\ ban_pc' = "done"
  /\ ban_result' = Err(e)

\* What no step of the fan-out changes: its arguments, and the state of the
\* backup import.
banInputs == <<target, ban, reason, remove_or_restore_data, expires, now, participated,
               importVars>>

banTables == <<community_person_ban, community_follower_t, mod_ban_from_community, activities>>

\* if !target.local { .. } is skipped: Ok(()).
LocalTarget ==
  /\ ban_pc = "start"
  /\ target.local
  /\ ban_pc' = "done"
  /\ ban_result' = Ok
  /\ UNCHANGED <<banInputs, banTables, ids, idx, expires_dt, calls>>

\* check_expire_time(*expires)? hoisted out of the for loop: the expiry is
\* validated once, before the first iteration.
list_local_community_ids_then_check(ok) ==
  /\ ban_pc = "start"
  /\ ~target.local
  /\ IF ~ok
       THEN ids' = ids /\ ReturnErr("DatabaseError")
       ELSE /\ ids' = [i \in 1 .. participated |-> i]
            /\ IF ~check_expire_time(expires, now).ok
                 THEN ReturnErr(check_expire_time(expires, now).error_type)
                 ELSE IF participated = 0
                   THEN ban_pc' = "done" /\ ban_result' = Ok
                   ELSE ban_pc' = "check_expire_time" /\ ban_result' = ban_result
  /\ calls' = Append(calls, Call("list_local_community_ids", 0, ok))
  /\ UNCHANGED <<banInputs, banTables, idx, expires_dt>>

\* Person::list_local_community_ids(..).await?
list_local_community_ids(ok) ==
  /\ ban_pc = "start"
  /\ ~target.local
  /\ IF ok
       THEN /\ ids' = [i \in 1 .. participated |-> i]
            /\ IF participated = 0
                 THEN ban_pc' = "done" /\ ban_result' = Ok
                 ELSE ban_pc' = "check_expire_time" /\ ban_result' = ban_result
       ELSE /\ ids' = ids
            /\ ReturnErr("DatabaseError")
  /\ calls' = Append(calls, Call("list_local_community_ids", 0, ok))
  /\ UNCHANGED <<banInputs, banTables, idx, expires_dt>>

\* check_expire_time(*expires)? made conditional on ban: an unban does not
\* validate the expiry and carries none.
CheckExpireTime_only_for_ban ==
  /\ ban_pc = "check_expire_time"
  /\ LET r == IF ban THEN check_expire_time(expires, now)
                     ELSE [ok |-> TRUE, val |-> None] IN
       /\ IF r.ok
            THEN /\ expires_dt' = r.val
                 /\ ban_pc' = IF ban THEN "ban" ELSE "unban"
                 /\ ban_result' = ban_result
            ELSE /\ expires_dt' = expires_dt
                 /\ ReturnErr(r.error_type)
       /\ calls' = IF ban THEN Append(calls, Call("check_expire_time", community_id, r.ok))
                          ELSE calls
  /\ UNCHANGED <<banInputs, banTables, ids, idx>>

\* let expires_dt = check_expire_time(*expires)?;
CheckExpireTime ==
  /\ ban_pc = "check_expire_time"
  /\ LET r == check_expire_time(expires, now) IN
       IF r.ok
         THEN /\ expires_dt' = r.val
              /\ ban_pc' = IF ban THEN "ban" ELSE "unban"
              /\ ban_result' = ban_result
         ELSE /\ expires_dt' = expires_dt
              /\ ReturnErr(r.error_type)
  /\ calls' = Append(calls, Call("check_expire_time", community_id,
                                 check_expire_time(expires, now).ok))
  /\ UNCHANGED <<banInputs, banTables, ids, idx>>

\* CommunityActions::ban(..).await? in place of .await.ok(): a failed ban write
\* ends the call.
CommunityActions_ban_propagates(ok) ==
  /\ ban_pc = "ban"
  /\ calls' = Append(calls, Call("ban", community_id, ok))
  /\ IF ok
       THEN /\ community_person_ban' = community_person_ban \cup {community_id}
            /\ ban_pc' = "unfollow"
            /\ ban_result' = ban_result
       ELSE /\ community_person_ban' = community_person_ban
            /\ ReturnErr("DatabaseError")
  /\ UNCHANGED <<banInputs, ids, idx, expires_dt,
                 community_follower_t, mod_ban_from_community, activities>>

\* CommunityActions::ban(..).await.ok();
CommunityActions_ban(ok) ==
  /\ ban_pc = "ban"
  /\ community_person_ban' =
       IF ok THEN community_person_ban \cup {community_id} ELSE community_person_ban
  /\ calls' = Append(calls, Call("ban", community_id, ok))
  /\ ban_pc' = "unfollow"
  /\ UNCHANGED <<banInputs, ids, idx, expires_dt, ban_result,
                 community_follower_t, mod_ban_from_community, activities>>

\* CommunityActions::unfollow(..).await.ok();
CommunityActions_unfollow(ok) ==
  /\ ban_pc = "unfollow"
  /\ community_follower_t' =
       IF ok THEN community_follower_t \ {community_id} ELSE community_follower_t
  /\ calls' = Append(calls, Call("unfollow", community_id, ok))
  /\ ban_pc' = "mod_log"
  /\ UNCHANGED <<banInputs, ids, idx, expires_dt, ban_result,
                 community_person_ban, mod_ban_from_community, activities>>

\* CommunityActions::unban(..).await? in place of .await.ok(): a failed unban
\* write ends the call.
CommunityActions_unban_propagates(ok) ==
  /\ ban_pc = "unban"
  /\ calls' = Append(calls, Call("unban", community_id, ok))
  /\ IF ok
       THEN /\ community_person_ban' = community_person_ban \ {community_id}
            /\ ban_pc' = "mod_log"
            /\ ban_result' = ban_result
       ELSE /\ community_person_ban' = community_person_ban
            /\ ReturnErr("DatabaseError")
  /\ UNCHANGED <<banInputs, ids, idx, expires_dt,
                 community_follower_t, mod_ban_from_community, activities>>

\* CommunityActions::unban(..).await.ok();
CommunityActions_unban(ok) ==
  /\ ban_pc = "unban"
  /\ community_person_ban' =
       IF ok THEN community_person_ban \ {community_id} ELSE community_person_ban
  /\ calls' = Append(calls, Call("unban", community_id, ok))
  /\ ban_pc' = "mod_log"
  /\ UNCHANGED <<banInputs, ids, idx, expires_dt, ban_result,
                 community_follower_t, mod_ban_from_community, activities>>

\* let form = ModBanFromCommunityForm { .. };
ModBanFromCommunityForm ==
  [mod_person_id |-> ModeratorId, other_person_id |-> TargetId,
   community_id |-> community_id, reason |-> reason,
   banned |-> Some(ban), expires |-> expires_dt]

\* ModBanFromCommunity::create with its error scoped to the community: a failed
\* log write skips the activity of this community and the loop goes on.
ModBanFromCommunity_create_continues(ok) ==
  /\ ban_pc = "mod_log"
  /\ calls' = Append(calls, Call("mod_log", community_id, ok))
  /\ IF ok
       THEN /\ mod_ban_from_community' = Append(mod_ban_from_community, ModBanFromCommunityForm)
            /\ ban_pc' = "submit_activity"
            /\ ban_result' = ban_result
            /\ idx' = idx
       ELSE /\ mod_ban_from_community' = mod_ban_from_community
            /\ NextCommunity
  /\ UNCHANGED <<banInputs, ids, expires_dt,
                 community_person_ban, community_follower_t, activities>>

\* ModBanFromCommunity::create(..).await.ok() in place of .await?: a failed log
\* write is ignored and the activity of the community is emitted all the same.
ModBanFromCommunity_create_ignored(ok) ==
  /\ ban_pc = "mod_log"
  /\ calls' = Append(calls, Call("mod_log", community_id, ok))
  /\ mod_ban_from_community' =
       IF ok THEN Append(mod_ban_from_community, ModBanFromCommunityForm)
             ELSE mod_ban_from_community
  /\ ban_pc' = "submit_activity"
  /\ UNCHANGED <<banInputs, ids, idx, expires_dt, ban_result,
                 community_person_ban, community_follower_t, activities>>

\* ModBanFromCommunity::create(..).await?;
ModBanFromCommunity_create(ok) ==
  /\ ban_pc = "mod_log"
  /\ calls' = Append(calls, Call("mod_log", community_id, ok))
  /\ IF ok
       THEN /\ mod_ban_from_community' = Append(mod_ban_from_community, ModBanFromCommunityForm)
            /\ ban_pc' = "submit_activity"
            /\ ban_result' = ban_result
       ELSE /\ mod_ban_from_community' = mod_ban_from_community
            /\ ReturnErr("DatabaseError")
  /\ UNCHANGED <<banInputs, ids, idx, expires_dt,
                 community_person_ban, community_follower_t, activities>>

\* let ban_from_community = BanFromCommunity { .. };
BanFromCommunity ==
  [community_id |-> community_id, person_id |-> TargetId, ban |-> ban,
   reason |-> reason, remove_or_restore_data |-> remove_or_restore_data,
   expires |-> expires]

\* ActivityChannel::submit_activity(SendActivityData::BanFromCommunity {..}, context)?;
\* then the end of the loop body.
submit_activity(ok) ==
  /\ ban_pc = "submit_activity"
  /\ calls' = Append(calls, Call("submit_activity", community_id, ok))
  /\ IF ok
       THEN /\ activities' = Append(activities, BanFromCommunity)
            /\ NextCommunity
       ELSE /\ activities' = activities
            /\ idx' = idx
            /\ ReturnErr("ActivityChannelClosed")
  /\ UNCHANGED <<banInputs, ids, expires_dt,
                 community_person_ban, community_follower_t, mod_ban_from_community>>

\* ------------------------------------------------- backup: the data and tables

\* const MAX_URL_IMPORT_COUNT: usize = 1000;
MAX_URL_IMPORT_COUNT == 1000

\* for _ in 0..101 of tests::disallow_large_backup.
PushCount == 101

\* How many times the client may append URLs to the backup file.
MaxPushes == 1

\* How many import requests the client may make.
MaxImports == 2

\* The person ids of the two local users of the tests, hanna and charles.
Hanna == 1

Charles == 2

LocalUsers == {Hanna, Charles}

\* The four Vec<ObjectId<..>> fields of UserBackup, in the order of the task.
Collections ==
  <<"followed_communities", "blocked_communities", "blocked_users", "saved_posts">>

\* Objects of other instances that an HTTP fetch can return.
FetchableCommunities == {"https://remote.example/c/news"}

FetchablePosts == {"https://remote.example/post/9"}

\* The URLs tests::disallow_large_backup pushes: neither names an object.
ExampleUrl == "http://example.com"

Example2Url == "http://example2.com"

\* The tables of the objects known locally: id -> row, ap_id the object's URL
\* (actor_id of a community or person, ap_id of a post). Community 1 is the local
\* community of tests::test_user_backup, community 2 and person 3 are objects of
\* another instance that were fetched earlier.
community0 ==
  (1 :> [ap_id |-> "https://lemmy.local/c/testcom"]) @@
  (2 :> [ap_id |-> "https://remote.example/c/second"])

post0 == (1 :> [ap_id |-> "https://lemmy.local/post/1"])

person0 ==
  (Hanna :> [ap_id |-> "https://lemmy.local/u/hanna",
             display_name |-> Some("hanna"), bio |-> Some("my bio"),
             avatar |-> Some("hanna.png"), banner |-> None,
             matrix_user_id |-> None, bot_account |-> FALSE]) @@
  (Charles :> [ap_id |-> "https://lemmy.local/u/charles",
               display_name |-> Some("charles"), bio |-> None,
               avatar |-> None, banner |-> Some("charles.png"),
               matrix_user_id |-> Some("@charles:matrix.org"), bot_account |-> TRUE]) @@
  (3 :> [ap_id |-> "https://remote.example/u/troll",
         display_name |-> None, bio |-> None, avatar |-> None, banner |-> None,
         matrix_user_id |-> None, bot_account |-> FALSE])

\* Two of the fifteen settings columns LocalUserUpdateForm carries; the other
\* thirteen are copied the same way.
local_user0 ==
  (Hanna :> [show_nsfw |-> TRUE, theme |-> "darkly"]) @@
  (Charles :> [show_nsfw |-> FALSE, theme |-> "browser"])

\* The relationship tables as one record.
Rows ==
  [community_follower |-> community_follower, community_block |-> community_block,
   person_block |-> person_block, post_saved |-> post_saved]

\* The bag holding each element of sequence s as often as s does.
BagOfSeq(s) ==
  [e \in {s[i] : i \in DOMAIN s} |-> Cardinality({i \in DOMAIN s : s[i] = e})]

\* The elements of a set of numbers in increasing order.
RECURSIVE SortedSeq(_)
SortedSeq(S) ==
  IF S = {} THEN <<>>
  ELSE LET m == CHOOSE x \in S : \A y \in S : x <= y
       IN <<m>> \o SortedSeq(S \ {m})

\* n copies of url.
Repeat(url, n) == [i \in 1 .. n |-> url]

\* ------------------------------------------------ backup: the collaborators

\* The ids of the rows of table whose URL is url.
LocalIds(table, url) == {id \in DOMAIN table : table[id].ap_id = url}

\* ObjectId::dereference_local: the object of that URL when the local database
\* holds it (ok: the read succeeds), an error otherwise. Never fetches.
dereference_local(table, url, ok) ==
  IF LocalIds(table, url) = {}
    THEN [ok |-> FALSE, error_type |-> "NotFound", table |-> table]
    ELSE IF ok
      THEN [ok |-> TRUE, id |-> CHOOSE id \in LocalIds(table, url) : TRUE, table |-> table]
      ELSE [ok |-> FALSE, error_type |-> "DatabaseError", table |-> table]

\* ObjectId::dereference: the local object when there is one, else an HTTP fetch
\* of the URL, which stores the fetched object locally (ok: the read or the
\* fetch succeeds).
dereference(table, fetchable, url, ok) ==
  IF LocalIds(table, url) # {}
    THEN dereference_local(table, url, ok)
    ELSE IF url \in fetchable /\ ok
      THEN LET id == Cardinality(DOMAIN table) + 1
           IN [ok |-> TRUE, id |-> id, table |-> (id :> [ap_id |-> url]) @@ table]
      ELSE [ok |-> FALSE, error_type |-> "FetchFailed", table |-> table]

\* A plain INSERT: the row is added whatever the table holds.
Insert(table, row, keys) == table (+) SetToBag({row})

\* INSERT .. ON CONFLICT (keys) DO UPDATE: the row replaces the row with the
\* same key columns, or is added.
Upsert(table, row, keys) ==
  LET other == {r \in BagToSet(table) : \E k \in keys : r[k] # row[k]}
  IN [r \in other \cup {row} |-> IF r = row THEN 1 ELSE table[r]]

\* CommunityFollower::follow
follow(table, form) == Upsert(table, form, {"person_id", "community_id"})

\* CommunityBlock::block
block_community(table, form) == Upsert(table, form, {"person_id", "community_id"})

\* PersonBlock::block
block_person(table, form) == Upsert(table, form, {"person_id", "target_id"})

\* PostSaved::save
save(table, form) == Upsert(table, form, {"person_id", "post_id"})

\* Person::update / LocalUser::update: a column is written when the form holds
\* Some(value) for it and is left alone when the form holds None.
Update(row, form) ==
  [c \in DOMAIN row |->
     IF c \in DOMAIN form /\ form[c].some THEN form[c].val ELSE row[c]]

\* sanitize_html_api: markup characters are escaped.
sanitize_html_api(text) ==
  IF text = "<b>bio</b>" THEN "&lt;b&gt;bio&lt;/b&gt;" ELSE text

\* sanitize_html_api_opt
sanitize_html_api_opt(text) ==
  IF text.some THEN Some(sanitize_html_api(text.val)) ELSE None

\* The URLs of the rows of table with an id in S, by increasing id.
ApIds(table, S) ==
  LET s == SortedSeq(S) IN [i \in DOMAIN s |-> table[s[i]].ap_id]

\* LocalUser::export_backup: the URLs of the communities the person follows, of
\* the communities and persons the person blocks, and of the posts the person saved.
export_backup(person_id) ==
  [followed_communities |->
     ApIds(community, {r.community_id : r \in {x \in BagToSet(community_follower) : x.person_id = person_id}}),
   blocked_communities |->
     ApIds(community, {r.community_id : r \in {x \in BagToSet(community_block) : x.person_id = person_id}}),
   blocked_users |->
     ApIds(person, {r.target_id : r \in {x \in BagToSet(person_block) : x.person_id = person_id}}),
   saved_posts |->
     ApIds(post, {r.post_id : r \in {x \in BagToSet(post_saved) : x.person_id = person_id}})]

\* ------------------------------------------------------ backup: the client

\* A backup file with every field absent: all fields of UserBackup are optional
\* and the four collections default to empty.
EmptyBackup ==
  [display_name |-> None, bio |-> None, avatar |-> None, banner |-> None,
   matrix_id |-> None, bot_account |-> None, settings |-> None,
   followed_communities |-> <<>>, blocked_communities |-> <<>>,
   blocked_users |-> <<>>, saved_posts |-> <<>>]

\* Ok(Json(UserBackup { .. })) of export_user_backup.
UserBackup(person_id) ==
  LET lists == export_backup(person_id) IN
  [display_name |-> person[person_id].display_name,
   bio |-> person[person_id].bio,
   avatar |-> person[person_id].avatar,
   banner |-> person[person_id].banner,
   matrix_id |-> person[person_id].matrix_user_id,
   bot_account |-> Some(person[person_id].bot_account),
   settings |-> Some(local_user[person_id]),
   followed_communities |-> lists.followed_communities,
   blocked_communities |-> lists.blocked_communities,
   blocked_users |-> lists.blocked_users,
   saved_posts |-> lists.saved_posts]

\* Backup files written by hand: a partial backup whose references all resolve,
\* one that repeats a reference and names a blocked community unknown locally,
\* one that names a blocked person unknown locally, two large ones, of
\* MAX_URL_IMPORT_COUNT counted references and of one more, and one with more
\* than MAX_URL_IMPORT_COUNT saved posts.
HandBackups ==
  { [EmptyBackup EXCEPT
       !.bio = Some("<b>bio</b>"),
       !.followed_communities =
          <<"https://lemmy.local/c/testcom", "https://remote.example/c/news">>,
       !.blocked_communities = <<"https://remote.example/c/second">>,
       !.blocked_users = <<"https://remote.example/u/troll">>,
       !.saved_posts = <<"https://lemmy.local/post/1", "https://remote.example/post/9">>],
    [EmptyBackup EXCEPT
       !.display_name = Some("hanna"),
       !.followed_communities =
          <<"https://lemmy.local/c/testcom", "https://lemmy.local/c/testcom">>,
       !.blocked_communities = <<Example2Url, "https://remote.example/c/second">>,
       !.blocked_users = <<"https://remote.example/u/troll">>,
       !.saved_posts = <<"https://lemmy.local/post/1">>],
    [EmptyBackup EXCEPT
       !.blocked_communities = <<"https://remote.example/c/second">>,
       !.blocked_users = <<"https://remote.example/u/nobody", "https://remote.example/u/troll">>,
       !.saved_posts = <<"https://remote.example/post/9">>],
    [EmptyBackup EXCEPT
       !.followed_communities = Repeat(ExampleUrl, MAX_URL_IMPORT_COUNT),
       !.saved_posts = <<"https://lemmy.local/post/1">>],
    [EmptyBackup EXCEPT
       !.followed_communities = Repeat(ExampleUrl, MAX_URL_IMPORT_COUNT),
       !.blocked_users = <<"https://remote.example/u/troll">>],
    [EmptyBackup EXCEPT
       !.blocked_users = <<"https://remote.example/u/troll">>,
       !.saved_posts = Repeat(ExampleUrl, MAX_URL_IMPORT_COUNT + 1)] }

clientVars == <<data, exported_from, pushes>>

tableVars == <<person, local_user, community, post,
               community_follower, community_block, person_block, post_saved>>

taskVars == <<task_state, task_error, collection, futures, resolver_calls>>

\* The backup may change until the client sends it, and no request is under way.
Editing == imports = 0

\* export_user_backup with its two lists swapped: blocked_communities is filled
\* from lists.followed_communities and the other way round.
export_user_backup_swapped(person_id) ==
  /\ Editing
  /\ data' = [UserBackup(person_id) EXCEPT
                !.followed_communities = export_backup(person_id).blocked_communities,
                !.blocked_communities = export_backup(person_id).followed_communities]
  /\ exported_from' = person_id
  /\ UNCHANGED <<pushes, imports, import_user, response, tableVars, taskVars,
                 rows_before, rows0, banVars>>

\* export_user_backup: the client downloads the backup of person_id.
export_user_backup(person_id) ==
  /\ Editing
  /\ data' = UserBackup(person_id)
  /\ exported_from' = person_id
  /\ UNCHANGED <<pushes, imports, import_user, response, tableVars, taskVars,
                 rows_before, rows0, banVars>>

\* The client takes a backup file written by hand.
Upload(backup) ==
  /\ Editing
  /\ data' = backup
  /\ exported_from' = 0
  /\ UNCHANGED <<pushes, imports, import_user, response, tableVars, taskVars,
                 rows_before, rows0, banVars>>

\* The loop of tests::disallow_large_backup: PushCount times, one URL is pushed
\* to followed_communities and one to blocked_communities.
PushUrls ==
  /\ Editing
  /\ pushes < MaxPushes
  /\ pushes' = pushes + 1
  /\ data' = [data EXCEPT
       !.followed_communities = @ \o Repeat(ExampleUrl, PushCount),
       !.blocked_communities = @ \o Repeat(Example2Url, PushCount)]
  /\ exported_from' = 0
  /\ UNCHANGED <<imports, import_user, response, tableVars, taskVars,
                 rows_before, rows0, banVars>>

\* ------------------------------------------- import_user_backup, synchronous

\* PersonUpdateForm built as a merge: display_name, bio and matrix_user_id are
\* set only when the backup holds them.
PersonUpdateForm_merging ==
  [display_name |-> IF data.display_name.some
                      THEN Some(sanitize_html_api_opt(data.display_name)) ELSE None,
   bio |-> IF data.bio.some THEN Some(sanitize_html_api_opt(data.bio)) ELSE None,
   matrix_user_id |-> IF data.matrix_id.some THEN Some(data.matrix_id) ELSE None,
   bot_account |-> data.bot_account]

\* let person_form = PersonUpdateForm { .. };
PersonUpdateForm ==
  [display_name |-> Some(sanitize_html_api_opt(data.display_name)),
   bio |-> Some(sanitize_html_api_opt(data.bio)),
   matrix_user_id |-> Some(data.matrix_id),
   bot_account |-> data.bot_account]

\* let local_user_form = LocalUserUpdateForm { .. };
LocalUserUpdateForm ==
  [show_nsfw |-> IF data.settings.some THEN Some(data.settings.val.show_nsfw) ELSE None,
   theme |-> IF data.settings.some THEN Some(data.settings.val.theme) ELSE None]

\* url_count without the blocked collections: only followed_communities counts.
url_count_followed_only == Len(data.followed_communities)

\* url_count without data.blocked_users.len().
url_count_without_blocked_users ==
  Len(data.followed_communities) + Len(data.blocked_communities)

\* url_count with data.saved_posts.len() added.
url_count_with_saved_posts ==
  Len(data.followed_communities) + Len(data.blocked_communities)
    + Len(data.blocked_users) + Len(data.saved_posts)

\* let url_count = ..;
url_count ==
  Len(data.followed_communities) + Len(data.blocked_communities) + Len(data.blocked_users)

\* The futures try_join_all is given for a collection: one per reference, each
\* at its first await, the resolution of the reference.
FuturesOf(urls) ==
  BagOfSeq([i \in DOMAIN urls |-> [ap_id |-> urls[i], at |-> "dereference", id |-> 0]])

\* The task with its last try_join_all left out: saved_posts is not awaited.
FirstNonEmpty_three(k) ==
  IF \E j \in k .. 3 : data[Collections[j]] # <<>>
    THEN CHOOSE j \in k .. 3 :
           /\ data[Collections[j]] # <<>>
           /\ \A i \in k .. j - 1 : data[Collections[i]] = <<>>
    ELSE 5

\* The first collection from the k-th on that holds a reference, 5 when none does:
\* try_join_all of no future is ready at once.
FirstNonEmpty(k) ==
  IF \E j \in k .. 4 : data[Collections[j]] # <<>>
    THEN CHOOSE j \in k .. 4 :
           /\ data[Collections[j]] # <<>>
           /\ \A i \in k .. j - 1 : data[Collections[i]] = <<>>
    ELSE 5

\* The task goes on to the k-th try_join_all, or ends with Ok(()).
StartCollection(k) ==
  /\ collection' = FirstNonEmpty(k)
  /\ futures' = IF FirstNonEmpty(k) > 4 THEN EmptyBag
                ELSE FuturesOf(data[Collections[FirstNonEmpty(k)]])
  /\ task_state' = IF FirstNonEmpty(k) > 4 THEN "Completed" ELSE "Running"
  /\ task_error' = task_error
  /\ response' = response

\* import_user_backup up to the spawn of the task. fail names the await that
\* returns an error, if one does.
import_user_backup(person_id, fail) ==
  /\ imports < MaxImports
  /\ imports > 0 => person_id = import_user
  /\ task_state \in {"None", "Completed", "Failed"}
  /\ imports' = imports + 1
  /\ import_user' = person_id
  /\ rows_before' = Rows
  /\ resolver_calls' = EmptyBag
  /\ task_error' = None
  /\ collection' = 0
  /\ futures' = EmptyBag
  /\ IF fail = "Person::update"
       THEN \* Person::update(..).await?
            /\ response' = Err("DatabaseError")
            /\ task_state' = "None"
            /\ UNCHANGED <<person, local_user>>
       ELSE /\ person' = [person EXCEPT ![person_id] = Update(@, PersonUpdateForm)]
            /\ IF fail = "LocalUser::update"
                 THEN \* LocalUser::update(..).await?
                      /\ response' = Err("DatabaseError")
                      /\ task_state' = "None"
                      /\ UNCHANGED local_user
                 ELSE /\ local_user' = [local_user EXCEPT
                                          ![person_id] = Update(@, LocalUserUpdateForm)]
                      /\ IF url_count > MAX_URL_IMPORT_COUNT
                           THEN /\ response' = Err("UserBackupTooLarge")
                                /\ task_state' = "None"
                           ELSE \* spawn_try_task(async move { .. });
                                \* Ok(Json(Default::default()))
                                /\ response' = Ok
                                /\ task_state' = "Pending"
  /\ UNCHANGED <<clientVars, community, post, community_follower, community_block,
                 person_block, post_saved, rows0, banVars>>

\* ---------------------------------------------- import_user_backup, the task

\* What no step of the task changes.
taskFrame == <<clientVars, imports, import_user, person, local_user,
               rows_before, rows0, banVars>>

\* The task starts to run: let person_id = ..; then the first try_join_all.
TaskStart ==
  /\ task_state = "Pending"
  /\ StartCollection(1)
  /\ UNCHANGED <<taskFrame, resolver_calls, community, post, community_follower,
                 community_block, person_block, post_saved>>

\* The ? of a future and of try_join_all(..).await?, with the task awaited by
\* the handler instead of spawned: the error becomes the handler's result.
TaskErrReturned(e) ==
  /\ task_state' = "Failed"
  /\ task_error' = Some(e)
  /\ futures' = EmptyBag
  /\ collection' = collection
  /\ response' = Err(e)

\* try_join_all(..).await with its error scoped to the collection: the error is
\* recorded, the other futures of the collection are dropped, and the task goes
\* on to the next collection.
TaskErr_continues(e) ==
  /\ task_error' = Some(e)
  /\ collection' = FirstNonEmpty(collection + 1)
  /\ futures' = IF FirstNonEmpty(collection + 1) > 4 THEN EmptyBag
                ELSE FuturesOf(data[Collections[FirstNonEmpty(collection + 1)]])
  /\ task_state' = IF FirstNonEmpty(collection + 1) > 4 THEN "Failed" ELSE "Running"
  /\ response' = response

\* The ? of a future without the drop of the other futures of try_join_all:
\* the task is failed and the futures of the collection stay in flight.
TaskErr_keeps_futures(e) ==
  /\ task_state' = "Failed"
  /\ task_error' = Some(e)
  /\ futures' = futures
  /\ collection' = collection
  /\ response' = response

\* The ? of a future and of try_join_all(..).await?: the first error of a
\* future ends try_join_all, the other futures are dropped, and the spawned
\* block returns the error, which spawn_try_task logs.
TaskErr(e) ==
  /\ task_state' = "Failed"
  /\ task_error' = Some(e)
  /\ futures' = EmptyBag
  /\ collection' = collection
  /\ response' = response

\* Future f has its object (id) and awaits the write of its row.
Resolved(f, id) ==
  /\ futures' = (futures (-) SetToBag({f})) (+)
                SetToBag({[ap_id |-> f.ap_id, at |-> "write", id |-> id]})
  /\ UNCHANGED <<task_state, task_error, collection, response>>

\* Future f returns LemmyResult::Ok(()) and the task goes on to the next
\* collection without awaiting the other futures of this one (a select in
\* place of try_join_all).
Finished_eager(f) == StartCollection(collection + 1)

\* Future f returns LemmyResult::Ok(()); when it was the last one, try_join_all
\* is ready and the task goes on to the next collection.
Finished(f) ==
  IF futures (-) SetToBag({f}) # EmptyBag
    THEN /\ futures' = futures (-) SetToBag({f})
         /\ UNCHANGED <<task_state, task_error, collection, response>>
    ELSE StartCollection(collection + 1)

\* Future f of the k-th collection is at the await named at.
Awaits(k, f, at) ==
  /\ task_state = "Running"
  /\ collection = k
  /\ f \in BagToSet(futures)
  /\ f.at = at

\* One more call of resolver for a reference of the k-th collection.
ResolverCalled(k, f, resolver) ==
  resolver_calls' = resolver_calls (+)
    SetToBag({[collection |-> Collections[k], ap_id |-> f.ap_id, resolver |-> resolver]})

\* let community = followed.dereference(&context).await?;
followed_dereference(f, ok) ==
  /\ Awaits(1, f, "dereference")
  /\ ResolverCalled(1, f, "dereference")
  /\ LET r == dereference(community, FetchableCommunities, f.ap_id, ok) IN
       /\ community' = r.table
       /\ IF r.ok THEN Resolved(f, r.id) ELSE TaskErr(r.error_type)
  /\ UNCHANGED <<taskFrame, post, community_follower, community_block,
                 person_block, post_saved>>

\* CommunityFollowerForm with pending: false.
CommunityFollowerForm_accepted(f) ==
  [person_id |-> import_user, community_id |-> f.id, pending |-> FALSE]

\* let form = CommunityFollowerForm { person_id, community_id: community.id, pending: true };
CommunityFollowerForm(f) ==
  [person_id |-> import_user, community_id |-> f.id, pending |-> TRUE]

\* The follow row written with a plain insert: a follow that is already there
\* gets a second row.
followed_follow_inserting(f, ok) ==
  /\ Awaits(1, f, "write")
  /\ IF ok
       THEN /\ community_follower' =
                 Insert(community_follower, CommunityFollowerForm(f), {"person_id", "community_id"})
            /\ Finished(f)
       ELSE /\ community_follower' = community_follower
            /\ TaskErr("DatabaseError")
  /\ UNCHANGED <<taskFrame, resolver_calls, community, post, community_block,
                 person_block, post_saved>>

\* CommunityFollower::follow(&mut context.pool(), &form).await?;
followed_follow(f, ok) ==
  /\ Awaits(1, f, "write")
  /\ IF ok
       THEN /\ community_follower' = follow(community_follower, CommunityFollowerForm(f))
            /\ Finished(f)
       ELSE /\ community_follower' = community_follower
            /\ TaskErr("DatabaseError")
  /\ UNCHANGED <<taskFrame, resolver_calls, community, post, community_block,
                 person_block, post_saved>>

\* blocked.dereference(&context) in place of dereference_local: an unknown
\* blocked community is fetched.
blocked_communities_dereference_fetching(f, ok) ==
  /\ Awaits(2, f, "dereference")
  /\ ResolverCalled(2, f, "dereference")
  /\ LET r == dereference(community, FetchableCommunities, f.ap_id, ok) IN
       /\ community' = r.table
       /\ IF r.ok THEN Resolved(f, r.id) ELSE TaskErr(r.error_type)
  /\ UNCHANGED <<taskFrame, post, community_follower, community_block,
                 person_block, post_saved>>

\* blocked.dereference_local(&context).await with its error dropped: a blocked
\* community unknown locally is skipped.
blocked_communities_dereference_skipping(f, ok) ==
  /\ Awaits(2, f, "dereference")
  /\ ResolverCalled(2, f, "dereference_local")
  /\ LET r == dereference_local(community, f.ap_id, ok) IN
       IF r.ok THEN Resolved(f, r.id) ELSE Finished(f)
  /\ UNCHANGED <<taskFrame, community, post, community_follower, community_block,
                 person_block, post_saved>>

\* let community = blocked.dereference_local(&context).await?;
blocked_communities_dereference_local(f, ok) ==
  /\ Awaits(2, f, "dereference")
  /\ ResolverCalled(2, f, "dereference_local")
  /\ LET r == dereference_local(community, f.ap_id, ok) IN
       IF r.ok THEN Resolved(f, r.id) ELSE TaskErr(r.error_type)
  /\ UNCHANGED <<taskFrame, community, post, community_follower, community_block,
                 person_block, post_saved>>

\* let form = CommunityBlockForm { person_id, community_id: community.id };
CommunityBlockForm(f) == [person_id |-> import_user, community_id |-> f.id]

\* CommunityBlock::block(&mut context.pool(), &form).await?;
blocked_communities_block(f, ok) ==
  /\ Awaits(2, f, "write")
  /\ IF ok
       THEN /\ community_block' = block_community(community_block, CommunityBlockForm(f))
            /\ Finished(f)
       ELSE /\ community_block' = community_block
            /\ TaskErr("DatabaseError")
  /\ UNCHANGED <<taskFrame, resolver_calls, community, post, community_follower,
                 person_block, post_saved>>

\* let target = blocked.dereference_local(&context).await?;
blocked_users_dereference_local(f, ok) ==
  /\ Awaits(3, f, "dereference")
  /\ ResolverCalled(3, f, "dereference_local")
  /\ LET r == dereference_local(person, f.ap_id, ok) IN
       IF r.ok THEN Resolved(f, r.id) ELSE TaskErr(r.error_type)
  /\ UNCHANGED <<taskFrame, community, post, community_follower, community_block,
                 person_block, post_saved>>

\* PersonBlockForm with its two columns swapped: the blocked person becomes the
\* subject of the row.
PersonBlockForm_swapped(f) == [person_id |-> f.id, target_id |-> import_user]

\* let form = PersonBlockForm { person_id, target_id: target.id };
PersonBlockForm(f) == [person_id |-> import_user, target_id |-> f.id]

\* PersonBlock::block(&mut context.pool(), &form).await?;
blocked_users_block(f, ok) ==
  /\ Awaits(3, f, "write")
  /\ IF ok
       THEN /\ person_block' = block_person(person_block, PersonBlockForm(f))
            /\ Finished(f)
       ELSE /\ person_block' = person_block
            /\ TaskErr("DatabaseError")
  /\ UNCHANGED <<taskFrame, resolver_calls, community, post, community_follower,
                 community_block, post_saved>>

\* let post = blocked.dereference(&context).await?;
saved_posts_dereference(f, ok) ==
  /\ Awaits(4, f, "dereference")
  /\ ResolverCalled(4, f, "dereference")
  /\ LET r == dereference(post, FetchablePosts, f.ap_id, ok) IN
       /\ post' = r.table
       /\ IF r.ok THEN Resolved(f, r.id) ELSE TaskErr(r.error_type)
  /\ UNCHANGED <<taskFrame, community, community_follower, community_block,
                 person_block, post_saved>>

\* let form = PostSavedForm { person_id, post_id: post.id };
PostSavedForm(f) == [person_id |-> import_user, post_id |-> f.id]

\* PostSaved::save(&mut context.pool(), &form).await?;
saved_posts_save(f, ok) ==
  /\ Awaits(4, f, "write")
  /\ IF ok
       THEN /\ post_saved' = save(post_saved, PostSavedForm(f))
            /\ Finished(f)
       ELSE /\ post_saved' = post_saved
            /\ TaskErr("DatabaseError")
  /\ UNCHANGED <<taskFrame, resolver_calls, community, post, community_follower,
                 community_block, person_block>>

\* ------------------------------------------------------ the specifications

\* The backup import at rest, with the rows the two users start with: hanna
\* follows the community of tests::test_user_backup, blocks a community and a
\* person and has saved a post; charles follows what charlesFollows holds (nothing,
\* or the remote community 2 with the follow not yet accepted).
ImportInit(charlesFollows) ==
  /\ data = EmptyBackup
  /\ exported_from = 0
  /\ pushes = 0
  /\ imports = 0
  /\ import_user = Hanna
  /\ response = Pending
  /\ person = person0
  /\ local_user = local_user0
  /\ community = community0
  /\ post = post0
  /\ community_follower =
       SetToBag({[person_id |-> Hanna, community_id |-> 1, pending |-> FALSE]})
       (+) charlesFollows
  /\ community_block = SetToBag({[person_id |-> Hanna, community_id |-> 2]})
  /\ person_block = SetToBag({[person_id |-> Hanna, target_id |-> 3]})
  /\ post_saved = SetToBag({[person_id |-> Hanna, post_id |-> 1]})
  /\ task_state = "None"
  /\ task_error = None
  /\ collection = 0
  /\ futures = EmptyBag
  /\ resolver_calls = EmptyBag
  /\ rows_before = Rows
  /\ rows0 = Rows

\* The fan-out at rest: a call on a local target that has returned.
BanIdle ==
  /\ target = [id |-> TargetId, local |-> TRUE]
  /\ ban = FALSE
  /\ reason = None
  /\ remove_or_restore_data = None
  /\ now = 1
  /\ expires = None
  /\ participated = 0
  /\ ids = <<>>
  /\ idx = 1
  /\ expires_dt = None
  /\ ban_pc = "done"
  /\ ban_result = Ok
  /\ community_person_ban = {}
  /\ community_follower_t = {}
  /\ mod_ban_from_community = <<>>
  /\ activities = <<>>
  /\ calls = <<>>

Init ==
  /\ BanIdle
  /\ \E charlesFollows \in
        {EmptyBag, SetToBag({[person_id |-> Charles, community_id |-> 2, pending |-> TRUE]})} :
       ImportInit(charlesFollows)

Next ==
  \/ \E person_id \in LocalUsers : export_user_backup(person_id)
  \/ \E backup \in HandBackups : Upload(backup)
  \/ PushUrls
  \/ \E person_id \in LocalUsers, fail \in {"", "Person::update", "LocalUser::update"} :
       import_user_backup(person_id, fail)
  \/ TaskStart
  \/ \E f \in BagToSet(futures), ok \in BOOLEAN : followed_dereference(f, ok)
  \/ \E f \in BagToSet(futures), ok \in BOOLEAN : followed_follow(f, ok)
  \/ \E f \in BagToSet(futures), ok \in BOOLEAN : blocked_communities_dereference_local(f, ok)
  \/ \E f \in BagToSet(futures), ok \in BOOLEAN : blocked_communities_block(f, ok)
  \/ \E f \in BagToSet(futures), ok \in BOOLEAN : blocked_users_dereference_local(f, ok)
  \/ \E f \in BagToSet(futures), ok \in BOOLEAN : blocked_users_block(f, ok)
  \/ \E f \in BagToSet(futures), ok \in BOOLEAN : saved_posts_dereference(f, ok)
  \/ \E f \in BagToSet(futures), ok \in BOOLEAN : saved_posts_save(f, ok)

Spec == Init /\ [][Next]_vars

\* A step of the spawned task: its start, or the return of a resolver or store
\* call one of its futures awaits.
TaskStep ==
  \/ TaskStart
  \/ \E f \in BagToSet(futures), ok \in BOOLEAN : followed_dereference(f, ok)
  \/ \E f \in BagToSet(futures), ok \in BOOLEAN : followed_follow(f, ok)
  \/ \E f \in BagToSet(futures), ok \in BOOLEAN : blocked_communities_dereference_local(f, ok)
  \/ \E f \in BagToSet(futures), ok \in BOOLEAN : blocked_communities_block(f, ok)
  \/ \E f \in BagToSet(futures), ok \in BOOLEAN : blocked_users_dereference_local(f, ok)
  \/ \E f \in BagToSet(futures), ok \in BOOLEAN : blocked_users_block(f, ok)
  \/ \E f \in BagToSet(futures), ok \in BOOLEAN : saved_posts_dereference(f, ok)
  \/ \E f \in BagToSet(futures), ok \in BOOLEAN : saved_posts_save(f, ok)

\* The executor polls the spawned task and every call it awaits returns: a task
\* that can take a step eventually takes one.
FairSpec == Spec /\ WF_vars(TaskStep)

BanInit ==
  /\ target \in {[id |-> TargetId, local |-> l] : l \in BOOLEAN}
  /\ ban \in BOOLEAN
  /\ reason \in {None, Some("spam")}
  /\ remove_or_restore_data \in {None, Some(TRUE), Some(FALSE)}
  /\ now = 1
  /\ expires \in {None} \cup {Some(t) : t \in 0 .. MaxTime}
  /\ participated \in 0 .. MaxCommunities
  /\ ids = <<>>
  /\ idx = 1
  /\ expires_dt = None
  /\ ban_pc = "start"
  /\ ban_result = Pending
  /\ community_person_ban \in {{}, CommunityIds}
  /\ community_follower_t \in {{}, 1 .. participated}
  /\ mod_ban_from_community = <<>>
  /\ activities = <<>>
  /\ calls = <<>>
  /\ ImportInit(EmptyBag)

BanNext ==
  \/ LocalTarget
  \/ \E ok \in BOOLEAN : list_local_community_ids(ok)
  \/ CheckExpireTime
  \/ \E ok \in BOOLEAN : CommunityActions_ban(ok)
  \/ \E ok \in BOOLEAN : CommunityActions_unfollow(ok)
  \/ \E ok \in BOOLEAN : CommunityActions_unban(ok)
  \/ \E ok \in BOOLEAN : ModBanFromCommunity_create(ok)
  \/ \E ok \in BOOLEAN : submit_activity(ok)

BanSpec == BanInit /\ [][BanNext]_vars

\* ------------------------------------------------- ban fan-out: the claims

\* The positions of calls that hold an operation among ops.
CallsOf(ops) == {i \in DOMAIN calls : calls[i].op \in ops}

\* The positions of calls that hold a failed operation among ops.
FailedCallsOf(ops) == {i \in CallsOf(ops) : ~calls[i].ok}

\* The number of ban-or-unban mutations attempted so far.
Mutations == Cardinality(CallsOf({"ban", "unban"}))

\* list_local_community_ids has returned the list.
Listed == \E i \in CallsOf({"list_local_community_ids"}) : calls[i].ok

\* The steps whose error the ? operator returns from the call.
FatalSteps == {"check_expire_time", "mod_log", "submit_activity"}

\* The call has returned for a non-local target whose list was read.
FannedOut == ban_pc = "done" /\ ~target.local /\ Listed

\* C1 as stated: a call on a non-local target whose list has N entries attempts
\* exactly N ban-or-unban mutations and emits at most N activities, whatever
\* per-community steps fail.
C1_Original ==
  FannedOut => Mutations = Len(ids) /\ Len(activities) <= Len(ids)

\* C1, amended: the call attempts one ban-or-unban mutation per community, in list
\* order, and stops at the first failed expiry validation, log write or activity
\* submission: never more than N mutations nor more than N activities, exactly N
\* of each when none of those three steps fails (whatever ban, unban and
\* unfollow writes fail), and otherwise exactly as many mutations as communities
\* reached before the failure.
C1_MutationsUpToFirstFatalFailure ==
  /\ Mutations <= Len(ids)
  /\ Len(activities) <= Mutations
  /\ FannedOut /\ FailedCallsOf(FatalSteps) = {}
       => ban_result = Ok /\ Mutations = Len(ids) /\ Len(activities) = Len(ids)
  /\ FannedOut /\ FailedCallsOf(FatalSteps) # {}
       => /\ ~ban_result.ok
          /\ Mutations = IF FailedCallsOf({"check_expire_time"}) # {} THEN idx - 1 ELSE idx
          /\ Len(activities) = idx - 1

\* C1 witness: a call over at least two communities returned after failed ban and
\* unfollow writes, with one mutation attempted per community.
C1_Witness ==
  /\ FannedOut
  /\ Len(ids) >= 2
  /\ FailedCallsOf({"ban"}) # {}
  /\ FailedCallsOf({"unfollow"}) # {}
  /\ Mutations = Len(ids)

\* A moderation-log write failed for the first of exactly two communities.
LogFailedForFirstOfTwo ==
  /\ Len(ids) = 2
  /\ \E i \in FailedCallsOf({"mod_log"}) : calls[i].community_id = ids[1]

\* C2 as stated: when the moderation-log write fails for C1 of C1, C2, the call
\* still processes C2 (mutation, log entry, activity) and returns success.
C2_Original ==
  ban_pc = "done" /\ LogFailedForFirstOfTwo
    => /\ ban_result = Ok
       /\ \E i \in CallsOf({"ban", "unban"}) : calls[i].community_id = ids[2]
       /\ \E i \in DOMAIN mod_ban_from_community :
            mod_ban_from_community[i].community_id = ids[2]
       /\ \E i \in DOMAIN activities : activities[i].community_id = ids[2]

\* C2, amended: a failed moderation-log write ends the call at once with that
\* error: the failing community gets neither a log entry nor an activity, and no
\* step of any following community takes place.
C2_LogFailureAbortsCall ==
  \A i \in FailedCallsOf({"mod_log"}) :
    /\ i = Len(calls)
    /\ ban_pc = "done"
    /\ ban_result = Err("DatabaseError")
    /\ calls[i].community_id = ids[idx]
    /\ \A j \in DOMAIN calls : calls[j].community_id <= calls[i].community_id
    /\ \A j \in DOMAIN mod_ban_from_community :
         mod_ban_from_community[j].community_id < calls[i].community_id
    /\ \A j \in DOMAIN activities :
         activities[j].community_id < calls[i].community_id

\* C2 witness: the log write failed for the first of two communities after its
\* ban write succeeded.
C2_Witness ==
  /\ ban_pc = "done"
  /\ LogFailedForFirstOfTwo
  /\ \E i \in CallsOf({"ban"}) : calls[i].ok /\ calls[i].community_id = ids[1]

\* Nothing to fan out: a local target, or a non-local one with an empty list.
NothingToFanOut == target.local \/ (Listed /\ Len(ids) = 0)

\* C3: with nothing to fan out the call returns success and has made no ban,
\* unban or unfollow mutation, written no log entry and emitted no activity,
\* for every ban, reason, remove_or_restore_data and expires.
C3_NothingToFanOutIsNoOp ==
  ban_pc = "done" /\ NothingToFanOut
    => /\ ban_result = Ok
       /\ CallsOf({"check_expire_time", "ban", "unban", "unfollow",
                   "mod_log", "submit_activity"}) = {}
       /\ mod_ban_from_community = <<>>
       /\ activities = <<>>

\* C3 witness: a ban with an expiry in the past of a non-local target with no
\* community of prior participation has returned.
C3_Witness ==
  /\ ban_pc = "done"
  /\ ~target.local
  /\ Listed
  /\ Len(ids) = 0
  /\ ban
  /\ expires.some
  /\ expires.val < now

\* ---------------------------------------------------- backup: the claims

\* The number of references the size check is about.
CountedReferences ==
  Len(data.followed_communities) + Len(data.blocked_communities) + Len(data.blocked_users)

\* An import request for the backup has returned.
Requested == imports > 0

\* C4 as stated: a backup of more than 1000 counted references makes
\* import_user_backup return UserBackupTooLarge, start no task and change no
\* relationship row.
C4_Original ==
  Requested /\ CountedReferences > MAX_URL_IMPORT_COUNT
    => /\ response = Err("UserBackupTooLarge")
       /\ task_state = "None"
       /\ Rows = rows_before

\* C4, amended: a backup of more than 1000 counted references makes
\* import_user_backup return an error, UserBackupTooLarge unless the profile or
\* the settings update failed before the size check and its error was returned;
\* no task is started and no relationship row is created or changed, then or
\* later.
C4_TooLargeIsRejected ==
  Requested /\ CountedReferences > MAX_URL_IMPORT_COUNT
    => /\ response \in {Err("UserBackupTooLarge"), Err("DatabaseError")}
       /\ task_state = "None"
       /\ futures = EmptyBag
       /\ resolver_calls = EmptyBag
       /\ Rows = rows_before
       /\ Rows = rows0

\* C4 witness: a backup of 1001 counted references was rejected as too large.
C4_Witness ==
  /\ Requested
  /\ CountedReferences = MAX_URL_IMPORT_COUNT + 1
  /\ response = Err("UserBackupTooLarge")

\* The backup of tests::disallow_large_backup: 101 followed and 101 blocked
\* communities, no blocked user.
LargeTestBackup ==
  /\ data.followed_communities = Repeat(ExampleUrl, PushCount)
  /\ data.blocked_communities = Repeat(Example2Url, PushCount)
  /\ data.blocked_users = <<>>

\* C5: import_user_backup of a backup with 101 followed and 101 blocked
\* communities returns the error UserBackupTooLarge (when its profile and
\* settings updates succeed).
C5_LargeTestBackupRejected ==
  Requested /\ LargeTestBackup /\ response # Err("DatabaseError")
    => response = Err("UserBackupTooLarge")

\* The collections resolved without fetching.
BlockCollections == {"blocked_communities", "blocked_users"}

\* C6: no reference of blocked_communities or blocked_users is ever passed to
\* the fetching resolver: each is resolved with dereference_local only, and no
\* person is ever fetched into the local person table.
C6_BlockListsNeverFetched ==
  /\ \A c \in BagToSet(resolver_calls) :
       c.collection \in BlockCollections => c.resolver = "dereference_local"
  /\ DOMAIN person = DOMAIN person0

\* The table the references of a collection are looked up in.
TableOf(name) ==
  IF name = "blocked_users" THEN person
  ELSE IF name = "saved_posts" THEN post
  ELSE community

\* The resolver calls made for a blocked reference unknown locally.
UnknownBlockedCalls ==
  {c \in BagToSet(resolver_calls) :
     c.collection \in BlockCollections /\ LocalIds(TableOf(c.collection), c.ap_id) = {}}

\* C6 witness: a blocked reference unknown locally has been resolved.
C6_Witness == UnknownBlockedCalls # {}

\* C7 as stated: a blocked reference that does not resolve locally never makes
\* the import fail.
C7_Original == UnknownBlockedCalls # {} => task_state # "Failed"

\* The position of a collection in the task.
IndexOf(name) == CHOOSE k \in 1 .. 4 : Collections[k] = name

\* C7, amended: a blocked-community or blocked-user reference that does not
\* resolve to a locally known object fails its future with the error NotFound:
\* the task ends Failed with that error at once, the unfinished entries of its
\* collection are dropped and the later collections are never started, so an
\* import of such a backup never ends Completed.
C7_UnknownBlockedFailsImport ==
  /\ \A c \in UnknownBlockedCalls :
       /\ task_state = "Failed"
       /\ task_error = Some("NotFound")
       /\ futures = EmptyBag
       /\ collection = IndexOf(c.collection)
       /\ \A d \in BagToSet(resolver_calls) : IndexOf(d.collection) <= collection
  /\ task_state = "Completed"
       => \A name \in BlockCollections : \A i \in DOMAIN data[name] :
            LocalIds(TableOf(name), data[name][i]) # {}

\* C7 witness: a blocked person unknown locally ended the import after the
\* blocked communities were imported.
C7_Witness ==
  /\ \E c \in UnknownBlockedCalls : c.collection = "blocked_users"
  /\ task_state = "Failed"
  /\ Rows # rows_before

\* The rows of table whose subject is person_id, as a bag.
RowsOf(table, person_id) ==
  [r \in {x \in BagToSet(table) : x.person_id = person_id} |-> table[r]]

\* The ids of the objects the references of a collection name.
IdsOf(name) ==
  UNION {LocalIds(TableOf(name), data[name][i]) : i \in DOMAIN data[name]}

\* Table before with the rows of forms written over the rows of the same key.
Merged(before, forms, object) ==
  LET kept == {r \in BagToSet(before) :
                 \A f \in forms : r.person_id # f.person_id \/ r[object] # f[object]}
  IN [r \in kept \cup forms |-> IF r \in forms THEN 1 ELSE before[r]]

\* The relationship tables one completed import of data by import_user makes of
\* the tables before.
Imported(before) ==
  [community_follower |->
     Merged(before.community_follower,
            {[person_id |-> import_user, community_id |-> c, pending |-> TRUE] :
               c \in IdsOf("followed_communities")}, "community_id"),
   community_block |->
     Merged(before.community_block,
            {[person_id |-> import_user, community_id |-> c] :
               c \in IdsOf("blocked_communities")}, "community_id"),
   person_block |->
     Merged(before.person_block,
            {[person_id |-> import_user, target_id |-> t] :
               t \in IdsOf("blocked_users")}, "target_id"),
   post_saved |->
     Merged(before.post_saved,
            {[person_id |-> import_user, post_id |-> q] :
               q \in IdsOf("saved_posts")}, "post_id")]

\* The names of the relationship tables.
Tables == {"community_follower", "community_block", "person_block", "post_saved"}

\* C8: importing the unmodified export of a subject onto the same subject
\* leaves the number of its follow, block and saved-post rows unchanged in every
\* state; an import that has completed, also as the second run after a first
\* one that failed part-way, leaves the rows one completed run makes of the
\* initial ones; and no row is held twice.
C8_ImportIdempotent ==
  /\ Requested /\ exported_from = import_user
       => \A t \in Tables :
            BagCardinality(RowsOf(Rows[t], import_user))
              = BagCardinality(RowsOf(rows0[t], import_user))
  /\ task_state = "Completed" => Rows = Imported(rows0)
  /\ \A t \in Tables : \A r \in BagToSet(Rows[t]) : Rows[t][r] = 1

\* C8 witness: a second run of an import has completed after a first run that
\* wrote some of the rows and failed.
C8_Witness ==
  /\ imports = 2
  /\ task_state = "Completed"
  /\ rows_before # rows0
  /\ rows_before # Rows

\* The import of the unmodified export of one user by another has completed.
ExportImported ==
  /\ task_state = "Completed"
  /\ exported_from \in LocalUsers
  /\ exported_from # import_user

\* C9 as stated: after the export of A is imported onto B with every step
\* succeeding, B follows exactly the communities of the backup, each pending.
C9_Original ==
  ExportImported
    => BagToSet(RowsOf(community_follower, import_user))
         = {[person_id |-> import_user, community_id |-> c, pending |-> TRUE] :
              c \in IdsOf("followed_communities")}

\* The calls of the fetching resolver for the reference url of a collection.
FetchingCalls(name, url) ==
  LET c == [collection |-> name, ap_id |-> url, resolver |-> "dereference"]
  IN IF c \in BagToSet(resolver_calls) THEN resolver_calls[c] ELSE 0

\* C9, amended: after the export of A is imported onto B with every step
\* succeeding, B follows the communities of the backup, each with a pending
\* row, besides the communities B followed before and the backup does not name,
\* whose rows are unchanged; B has a saved-post row for each saved post of the
\* backup; and each reference of followed_communities and saved_posts was
\* resolved with the fetching resolver exactly once.
C9_ExportImportOntoOther ==
  ExportImported
    => /\ community_follower = Imported(rows0).community_follower
       /\ \A c \in IdsOf("followed_communities") :
            [person_id |-> import_user, community_id |-> c, pending |-> TRUE]
              \in BagToSet(community_follower)
       /\ Cardinality(IdsOf("followed_communities")) = Len(data.followed_communities)
       /\ \A q \in IdsOf("saved_posts") :
            [person_id |-> import_user, post_id |-> q] \in BagToSet(post_saved)
       /\ Cardinality(IdsOf("saved_posts")) = Len(data.saved_posts)
       /\ \A name \in {"followed_communities", "saved_posts"} :
            \A i \in DOMAIN data[name] : FetchingCalls(name, data[name][i]) = 1

\* C9 witness: the export of hanna, who follows a community and has saved a
\* post, was imported by charles, who followed another community before.
C9_Witness ==
  /\ ExportImported
  /\ exported_from = Hanna
  /\ data.followed_communities # <<>>
  /\ data.saved_posts # <<>>
  /\ RowsOf(rows0.community_follower, import_user) # EmptyBag

\* C10: import_user_backup returns success exactly when its profile update, its
\* settings update and the size check succeeded, which is when the task was
\* spawned, and that result stays whatever the task does: a task that failed
\* leaves the response a success.
C10_ResponseIndependentOfTask ==
  /\ task_state \in {"Pending", "Running", "Completed", "Failed"} => response = Ok
  /\ Requested /\ task_state = "None"
       => response \in {Err("DatabaseError"), Err("UserBackupTooLarge")}
  /\ response = Err("UserBackupTooLarge") => CountedReferences > MAX_URL_IMPORT_COUNT
  /\ response = Ok => CountedReferences <= MAX_URL_IMPORT_COUNT
  /\ task_state = "Failed" => task_error.some

\* C10 witness: the task failed after import_user_backup returned success.
C10_Witness ==
  /\ task_state = "Failed"
  /\ response = Ok
  /\ task_error \in {Some("FetchFailed"), Some("DatabaseError")}

\* The import request was accepted: its task was spawned.
Accepted == task_state \in {"Pending", "Running", "Completed", "Failed"}

\* The number of references of all four collections.
TotalReferences == CountedReferences + Len(data.saved_posts)

\* The number of futures of the awaited try_join_all.
InFlight == BagCardinality(futures)

\* C11 as stated: in every state of an accepted import the references handed to
\* the task, over all four collections, and so the futures in flight at the
\* same time, are at most 1000.
C11_Original ==
  Accepted => TotalReferences <= MAX_URL_IMPORT_COUNT /\ InFlight <= MAX_URL_IMPORT_COUNT

\* C11, amended: in every state of an accepted import the references of
\* followed_communities, blocked_communities and blocked_users handed to the
\* task are at most 1000 together, and so are the futures in flight for any of
\* these three collections; the futures in flight are never more than the
\* references of the collection being awaited. saved_posts is not bounded: the
\* references of all four collections, and the saved-post futures in flight,
\* may exceed 1000.
C11_CountedFanOutBounded ==
  Accepted
    => /\ CountedReferences <= MAX_URL_IMPORT_COUNT
       /\ collection \in 1 .. 3 => InFlight <= MAX_URL_IMPORT_COUNT
       /\ collection \in 1 .. 4 => InFlight <= Len(data[Collections[collection]])
       /\ collection \notin 1 .. 4 => InFlight = 0

\* C11 witness: the task of an accepted import awaits more than 1000 saved-post
\* futures at once.
C11_Witness ==
  /\ task_state = "Running"
  /\ collection = 4
  /\ InFlight > MAX_URL_IMPORT_COUNT

BestEffort == {"ban", "unfollow", "unban"}

StepAfter(op) == IF op = "ban" THEN "unfollow" ELSE "mod_log"

\* No call of the given operations failed.
NoFailureOf(ops) == FailedCallsOf(ops) = {}

\* The communities for which a call of op was made, in call order.
CommunitiesOf(op) ==
  LET F[i \in 0 .. Len(calls)] ==
        IF i = 0 THEN <<>>
        ELSE IF calls[i].op = op THEN Append(F[i - 1], calls[i].community_id)
        ELSE F[i - 1]
  IN F[Len(calls)]

\* C13: a failed ban, unban or unfollow write does not abort the call: the step
\* after it is the next step of the same community, the call returns an error
\* only from a step that is not best-effort, and a call in which no other step
\* failed writes the log entry and emits the activity of every community.
C13_BestEffortWritesDoNotAbort ==
  /\ \A i \in FailedCallsOf(BestEffort) :
       IF i < Len(calls)
         THEN /\ calls[i + 1].op = StepAfter(calls[i].op)
              /\ calls[i + 1].community_id = calls[i].community_id
         ELSE /\ ban_pc = StepAfter(calls[i].op)
              /\ community_id = calls[i].community_id
              /\ ban_result = Pending
  /\ ban_pc = "done" /\ ban_result # Ok /\ calls # <<>>
       => /\ calls[Len(calls)].op \notin BestEffort
          /\ ~calls[Len(calls)].ok
  /\ FannedOut /\ NoFailureOf(FatalSteps)
       => /\ ban_result = Ok
          /\ CommunitiesOf("mod_log") = ids
          /\ CommunitiesOf("submit_activity") = ids
          /\ Len(mod_ban_from_community) = Len(ids)
          /\ Len(activities) = Len(ids)

\* C13 witness: every best-effort write of a call over several communities
\* failed, and the call returned Ok with the log entry and the activity of
\* each community.
C13_Witness ==
  /\ FannedOut
  /\ Len(ids) >= 2
  /\ \A c \in DOMAIN ids : \E i \in FailedCallsOf(BestEffort) : calls[i].community_id = c
  /\ \A i \in CallsOf(BestEffort) : ~calls[i].ok
  /\ ban_result = Ok
  /\ Len(activities) = Len(ids)

\* The expiry lies in the past (as check_expire_time judges it).
PastExpiry == expires.some /\ expires.val < now

\* C14 as stated: with ban = false an expiry in the past does not produce an
\* error, and a call in which no log write and no emission failed performs the
\* log entry and the unban activity of every community.
C14_Original ==
  ~ban => /\ ban_result # Err("BanExpirationInPast")
          /\ FannedOut /\ NoFailureOf({"mod_log", "submit_activity"})
               => /\ ban_result = Ok
                  /\ Len(mod_ban_from_community) = Len(ids)
                  /\ Len(activities) = Len(ids)

\* C14, amended: the expiry is validated at the start of every iteration,
\* whatever ban is. With ban = false and an expiry in the past, a call that
\* has a community to visit returns the validation error in its first
\* iteration, before any unban write, log entry or activity; with no expiry or
\* one that is not in the past the validation passes in every iteration and
\* the log entries carry the validated expiry.
C14_ExpiryValidatedAlsoForUnban ==
  /\ \A i \in CallsOf({"ban", "unban"}) :
       /\ calls[i - 1].op = "check_expire_time"
       /\ calls[i - 1].community_id = calls[i].community_id
       /\ calls[i - 1].ok
  /\ ~ban /\ PastExpiry /\ ban_pc = "done" /\ Listed /\ ids # <<>>
       => /\ ban_result = Err("BanExpirationInPast")
          /\ calls = <<Call("list_local_community_ids", 0, TRUE),
                       Call("check_expire_time", ids[1], FALSE)>>
          /\ Mutations = 0
          /\ mod_ban_from_community = <<>>
          /\ activities = <<>>
  /\ ~ban /\ ~PastExpiry
       => /\ NoFailureOf({"check_expire_time"})
          /\ \A i \in DOMAIN mod_ban_from_community :
               mod_ban_from_community[i].expires = expires

\* C14 witness: an unban call over several communities with an expiry in the
\* past returned the validation error without attempting an unban.
C14_Witness ==
  /\ ~ban
  /\ PastExpiry
  /\ ban_pc = "done"
  /\ ban_result = Err("BanExpirationInPast")
  /\ Len(ids) >= 2
  /\ Mutations = 0

\* C15: within one community the steps run in the order mutation attempt, log
\* write, activity emission: every emission attempt for community c directly
\* follows a successful log write for c, which follows the mutation attempt
\* for c; the emitted activities are never more than the log entries written
\* and the i-th activity is for the community of the i-th log entry.
C15_ActivityFollowsLogEntry ==
  /\ \A i \in CallsOf({"submit_activity"}) :
       /\ i > 1
       /\ calls[i - 1] = Call("mod_log", calls[i].community_id, TRUE)
       /\ \E j \in CallsOf({"ban", "unban"}) :
            j < i - 1 /\ calls[j].community_id = calls[i].community_id
  /\ \A i \in CallsOf({"mod_log"}) :
       /\ i > 1
       /\ calls[i - 1].op \in {"unfollow", "unban"}
       /\ calls[i - 1].community_id = calls[i].community_id
  /\ Len(activities) <= Len(mod_ban_from_community)
  /\ Len(mod_ban_from_community) <= Len(activities) + 1
  /\ \A i \in DOMAIN activities :
       activities[i].community_id = mod_ban_from_community[i].community_id
  /\ Len(activities) = Cardinality({i \in CallsOf({"submit_activity"}) : calls[i].ok})
  /\ Len(mod_ban_from_community) = Cardinality({i \in CallsOf({"mod_log"}) : calls[i].ok})

\* C15 witness: activities were emitted for two communities, each after its log
\* entry, and the log entry of a third was written whose activity was not
\* emitted.
C15_Witness ==
  /\ Len(activities) = 2
  /\ Len(mod_ban_from_community) = 3
  /\ ban_pc = "done"
  /\ FailedCallsOf({"submit_activity"}) # {}

\* The relationship table the k-th collection is written to.
RelationOf == <<"community_follower", "community_block", "person_block", "post_saved">>

\* The references of the k-th collection, as a set.
ReferencesOf(k) == {data[Collections[k]][i] : i \in DOMAIN data[Collections[k]]}

\* How often url is listed in the k-th collection.
Occurrences(k, url) ==
  Cardinality({i \in DOMAIN data[Collections[k]] : data[Collections[k]][i] = url})

\* The resolver calls made for the k-th collection, and their number for url.
CallsFor(k) == {d \in BagToSet(resolver_calls) : d.collection = Collections[k]}

CallCount(k, url) ==
  BagCardinality([d \in {c \in CallsFor(k) : c.ap_id = url} |-> resolver_calls[d]])

\* Every reference of the k-th collection has been passed to its resolver.
FullyResolved(k) ==
  \A url \in ReferencesOf(k) : CallCount(k, url) = Occurrences(k, url)

\* The table of the k-th collection holds what a completed import makes of it.
Written(k) == Rows[RelationOf[k]] = Imported(rows_before)[RelationOf[k]]

\* Nothing was resolved or written for the k-th collection since the request.
Untouched(k) ==
  /\ CallsFor(k) = {}
  /\ Rows[RelationOf[k]] = rows_before[RelationOf[k]]

\* C16 as stated: a failure in one collection leaves the other three
\* collections resolved and written.
C16_Original ==
  task_state = "Failed"
    => \A k \in (1 .. 4) \ {collection} : FullyResolved(k) /\ Written(k)

\* C16, amended: a resolution or storage failure in one collection ends the
\* whole background import: the task is Failed at once, nothing is in flight,
\* the collections after the failing one are never resolved and none of their
\* rows is written, and only the collections before it have been imported.
C16_FailureEndsWholeImport ==
  task_error.some
    => /\ task_state = "Failed"
       /\ futures = EmptyBag
       /\ collection \in 1 .. 4
       /\ \A k \in 1 .. collection - 1 : FullyResolved(k) /\ Written(k)
       /\ \A k \in collection + 1 .. 4 : Untouched(k)

\* C16 witness: a followed community could not be fetched, and the blocks and
\* the saved posts of the backup were not imported.
C16_Witness ==
  /\ task_state = "Failed"
  /\ collection = 1
  /\ task_error = Some("FetchFailed")
  /\ \A k \in 2 .. 4 : data[Collections[k]] # <<>> /\ ~Written(k)

\* The futures in flight belong to the k-th collection: they are references of
\* it, none more often than the collection lists it.
FuturesWithin(k) ==
  /\ \A f \in BagToSet(futures) : f.ap_id \in ReferencesOf(k)
  /\ \A url \in ReferencesOf(k) :
       BagCardinality([f \in {g \in BagToSet(futures) : g.ap_id = url} |-> futures[f]])
         <= Occurrences(k, url)

\* C19: the task processes the collections in the order followed communities,
\* blocked communities, blocked users, saved posts: whenever a resolution or a
\* write for a collection has started, every reference of every earlier
\* collection is resolved and written, nothing of a later collection is
\* resolved or written, and the futures in flight are all of the one
\* collection being processed.
C19_CollectionsInOrder ==
  /\ \A d \in BagToSet(resolver_calls) : IndexOf(d.collection) <= collection
  /\ futures # EmptyBag => task_state = "Running" /\ collection \in 1 .. 4
  /\ collection \in 1 .. 4 => FuturesWithin(collection)
  /\ task_state \in {"Running", "Completed", "Failed"}
       => /\ collection \in 1 .. 5
          /\ \A k \in 1 .. collection - 1 : FullyResolved(k) /\ Written(k)
          /\ \A k \in collection + 1 .. 4 : Untouched(k)

\* C19 witness: the two saved posts of a backup are in flight, after the two
\* followed communities, the blocked community and the blocked person of the
\* same backup have been resolved and written.
C19_Witness ==
  /\ task_state = "Running"
  /\ collection = 4
  /\ BagCardinality(futures) = 2
  /\ Len(data.followed_communities) = 2
  /\ data.blocked_communities # <<>>
  /\ data.blocked_users # <<>>
  /\ Rows # rows_before

\* What the task writes: the relationship tables and the objects its fetches
\* store; and the state of the task.
TaskWrites ==
  <<community_follower, community_block, person_block, post_saved, community, post>>

TaskProgress == <<task_state, task_error, collection, futures, resolver_calls>>

\* C20: once a future of the task has failed the task makes no further
\* relationship write: the task is Failed with no future in flight, the
\* unfinished futures of the failing collection having been dropped and the
\* later collections not started, and while the task is Failed the relationship
\* tables do not change, and no resolver is called until a new import is
\* requested.
C20_NoWriteAfterFailure ==
  /\ [](task_state = "Failed" => futures = EmptyBag /\ task_error.some)
  /\ [][task_state = "Failed"
          => /\ UNCHANGED TaskWrites
             /\ imports' = imports => UNCHANGED TaskProgress]_vars

\* C20 witness: a blocked person was not found while another blocked person of
\* the backup had not been resolved yet; that future was dropped and the saved
\* posts of the backup were not started.
C20_Witness ==
  /\ task_state = "Failed"
  /\ collection = 3
  /\ ~FullyResolved(3)
  /\ data.saved_posts # <<>>
  /\ Untouched(4)
  /\ Rows # rows_before

\* The states in which the task has ended.
Terminal == {"Completed", "Failed"}

\* The changes of task_state: a request spawns the task or is refused, the
\* spawned task starts to run, and a running task ends. (A task with nothing to
\* await runs to its end in the step that starts it.)
TaskTransitions ==
  {<<"None", "Pending">>, <<"Pending", "Running">>, <<"Pending", "Completed">>,
   <<"Running", "Completed">>, <<"Running", "Failed">>}
  \cup {<<t, n>> : t \in Terminal, n \in {"None", "Pending"}}

\* C17: the task follows Pending -> Running -> {Completed, Failed}: when every
\* call it awaits returns, a spawned task eventually is Completed or Failed and
\* stays so (until a new import is requested); it is Completed only with every
\* reference of all four collections resolved and written and no error, and
\* Failed with a single error, the first, which is never replaced.
C17_TaskEndsCompletedOrFailed ==
  /\ (task_state = "Pending") ~> (task_state \in Terminal)
  /\ [][task_state' # task_state => <<task_state, task_state'>> \in TaskTransitions]_vars
  /\ [][(task_state \in Terminal /\ imports' = imports)
          => (task_state' = task_state /\ task_error' = task_error)]_vars
  /\ [][(task_error.some /\ task_error' # task_error) => imports' # imports]_vars
  /\ [](task_state = "Completed"
          => /\ task_error = None
             /\ futures = EmptyBag
             /\ \A k \in 1 .. 4 : FullyResolved(k) /\ Written(k))
  /\ [](task_state = "Failed" <=> task_error.some)

\* C17 witness: the task of a backup with references in all four collections
\* ended Completed.
C17_Witness ==
  /\ task_state = "Completed"
  /\ \A k \in 1 .. 4 : data[Collections[k]] # <<>>
  /\ Rows # rows_before

\* The column of each relationship table that names the object, and the table
\* of the objects.
ObjectColumn ==
  [community_follower |-> "community_id", community_block |-> "community_id",
   person_block |-> "target_id", post_saved |-> "post_id"]

ObjectTable ==
  [community_follower |-> community, community_block |-> community,
   person_block |-> person, post_saved |-> post]

\* The columns of a complete row of each relationship table.
Columns ==
  [community_follower |-> {"person_id", "community_id", "pending"},
   community_block |-> {"person_id", "community_id"},
   person_block |-> {"person_id", "target_id"},
   post_saved |-> {"person_id", "post_id"}]

\* The (subject, object) pairs of a relationship table.
Keys(table, t) == {<<r.person_id, r[ObjectColumn[t]]>> : r \in BagToSet(table)}

\* Table t holds one row per (subject, object), each complete and between a
\* person and an object that exist.
ValidTable(t) ==
  /\ \A r \in BagToSet(Rows[t]) :
       /\ Rows[t][r] = 1
       /\ DOMAIN r = Columns[t]
       /\ r.person_id \in DOMAIN person
       /\ r[ObjectColumn[t]] \in DOMAIN ObjectTable[t]
  /\ \A r1, r2 \in BagToSet(Rows[t]) :
       (r1.person_id = r2.person_id /\ r1[ObjectColumn[t]] = r2[ObjectColumn[t]])
         => r1 = r2

\* Some collection lists a reference more than once.
ListedTwice == \E k \in 1 .. 4 : \E url \in ReferencesOf(k) : Occurrences(k, url) > 1

\* C18: under every interleaving of the futures of an import, with references
\* listed several times and with imports that fail part-way, every
\* relationship table always holds at most one row per (subject, object), each
\* row complete and valid; no step removes a (subject, object) pair, and the
\* step in which the task fails changes no relationship row (no rollback).
C18_OneRowPerRelationship ==
  /\ [](\A t \in Tables : ValidTable(t))
  /\ [][\A t \in Tables : Keys(Rows[t], t) \subseteq Keys(Rows'[t], t)]_vars
  /\ [][task_state' = "Failed" => Rows' = Rows]_vars

\* C18 witness: an import whose backup lists a followed community twice wrote
\* rows and then failed.
C18_Witness ==
  /\ task_state = "Failed"
  /\ ListedTwice
  /\ collection > 1
  /\ Rows # rows_before

\* The step is a call of import_user_backup, by the person it names.
ImportRequest == imports' = imports + 1

\* Person::update of the request was applied: display_name, bio and the matrix
\* id of the subject are those of the backup (the free texts sanitized), absent
\* ones cleared; bot_account is the backup's when it has one.
ProfileWritten(u) ==
  /\ person'[u].display_name = sanitize_html_api_opt(data.display_name)
  /\ person'[u].bio = sanitize_html_api_opt(data.bio)
  /\ person'[u].matrix_user_id = data.matrix_id
  /\ person'[u].bot_account =
       IF data.bot_account.some THEN data.bot_account.val ELSE person[u].bot_account

\* LocalUser::update of the request was applied: the settings are those of the
\* backup when it has settings.
SettingsWritten(u) ==
  local_user'[u] =
    IF data.settings.some
      THEN [c \in DOMAIN local_user[u] |-> data.settings.val[c]]
      ELSE local_user[u]

\* C21: a call of import_user_backup whose two updates succeed writes
\* display_name, bio and the matrix id of the subject from the backup whether
\* present or absent (an absent one clears the subject's value), and
\* bot_account and the settings only when the backup holds them; avatar and
\* banner, and the rows of everybody else, are never changed. The writes come
\* before the size check: a call rejected as too large has made them, and no
\* later step undoes them. (When Person::update fails nothing is written, when
\* LocalUser::update fails only the profile is.)
C21_ProfileOverwrittenBeforeSizeCheck ==
  /\ [][ImportRequest
          => LET u == import_user' IN
             /\ \A q \in DOMAIN person \ {u} : person'[q] = person[q]
             /\ \A q \in DOMAIN local_user \ {u} : local_user'[q] = local_user[q]
             /\ person'[u].avatar = person[u].avatar
             /\ person'[u].banner = person[u].banner
             /\ person'[u].ap_id = person[u].ap_id
             /\ response' \in {Ok, Err("UserBackupTooLarge")}
                  => ProfileWritten(u) /\ SettingsWritten(u)
             /\ response' = Err("UserBackupTooLarge")
                  <=> (ProfileWritten(u) /\ SettingsWritten(u) /\ task_state' = "None"
                       /\ CountedReferences > MAX_URL_IMPORT_COUNT /\ response' # Err("DatabaseError"))
             /\ response' = Err("DatabaseError")
                  => /\ local_user' = local_user
                     /\ person' = person \/ ProfileWritten(u)]_vars
  /\ [][~ImportRequest => person' = person /\ local_user' = local_user]_vars

\* C21 witness: an import rejected as too large, of a backup without bio and
\* without settings, has cleared the bio of the subject and kept the subject's
\* avatar and settings.
C21_Witness ==
  /\ response = Err("UserBackupTooLarge")
  /\ data.bio = None
  /\ data.settings = None
  /\ person0[import_user].bio # None
  /\ person[import_user].bio = None
  /\ person[import_user].avatar = person0[import_user].avatar
  /\ local_user[import_user] = local_user0[import_user]

\* The collection written to relationship table t.
CollectionOf(t) == CHOOSE k \in 1 .. 4 : RelationOf[k] = t

\* The rows of table t the step wrote: those it holds afterwards that it did
\* not hold before, or not as often.
RowsWritten(t) ==
  {r \in BagToSet(Rows'[t]) : ~BagIn(r, Rows[t]) \/ Rows'[t][r] # Rows[t][r]}

\* Row r of table t is a row of the importing subject for an object a
\* reference of the backup's collection for t names.
NamedBySnapshot(r, t) ==
  /\ r.person_id = import_user
  /\ r[ObjectColumn[t]] \in DOMAIN ObjectTable[t]
  /\ ObjectTable[t][r[ObjectColumn[t]]].ap_id \in ReferencesOf(CollectionOf(t))

\* C22: the import is additive on relationships: no step removes the row of a
\* (subject, object) pair; every row written is written by the running task,
\* has the importing subject as its subject and as its object one that a
\* reference of the backup's collection for that table resolves to; the rows
\* of other persons, and those of the subject for objects the backup does not
\* name, are never changed. The request itself writes no relationship row.
C22_ImportIsAdditive ==
  /\ [][\A t \in Tables :
          /\ Keys(Rows[t], t) \subseteq Keys(Rows'[t], t)
          /\ \A r \in RowsWritten(t) :
               task_state = "Running" /\ NamedBySnapshot(r, t)
          /\ \A r \in BagToSet(Rows[t]) :
               ~NamedBySnapshot(r, t) => (BagIn(r, Rows'[t]) /\ Rows'[t][r] = Rows[t][r])]_vars
  /\ [][ImportRequest => Rows' = Rows]_vars
  /\ [](\A t \in Tables : \A r \in BagToSet(rows_before[t]) :
          ~NamedBySnapshot(r, t) => (BagIn(r, Rows[t]) /\ Rows[t][r] = rows_before[t][r]))

\* C22 witness: charles, who followed a community the backup does not name,
\* has imported a backup: rows of his were written and that follow is as it was.
C22_Witness ==
  /\ task_state = "Completed"
  /\ import_user = Charles
  /\ Rows # rows_before
  /\ \E r \in BagToSet(rows_before.community_follower) :
       /\ r.person_id = Charles
       /\ ~NamedBySnapshot(r, "community_follower")
       /\ BagIn(r, community_follower)
  /\ \E r \in BagToSet(Rows.person_block) :
       r.person_id = Charles /\ ~BagIn(r, rows_before.person_block)

====
